---- MODULE Spec2Model ----
(***************************************************************************)
(* BAKE prompt-optimisation engine (core/bake_engine.py).                  *)
(*                                                                         *)
(* Two specifications share this module:                                   *)
(*   EvalSpec  one call of BakeEngine.evaluate_parallel, with its worker   *)
(*             threads, retry loop and the as_completed aggregation loop;  *)
(*   Spec      BakeEngine.run over a dataset, one action per stretch of    *)
(*             code between two collaborator calls.                        *)
(* Texts that the code inspects character by character are sequences of    *)
(* one-character strings; texts the code only stores and compares are      *)
(* TLA+ strings.                                                           *)
(***************************************************************************)
EXTENDS Integers, Sequences, FiniteSets, TLC

(***************************************************************************)
(* Bounds of the model                                                     *)
(***************************************************************************)
\* longest dataset explored
NumSamples == 4
\* largest config['bake']['group_size'] explored
MaxGroupSize == 2
\* largest config['execution']['max_retries'] explored
MaxRetries == 2
\* longest prompt list handed to evaluate_parallel in EvalSpec
MaxPrompts == 2
\* largest config['execution']['concurrency'] explored
MaxConcurrency == 2
\* largest max_retries explored for a whole run
MaxRunRetries == 1
\* most blocks in one optimizer answer to refine
MaxBlocks == 2
\* most lines in one optimizer answer to prompt generation
MaxLines == 1
\* the call counters of the history stop counting here
CountCap == 2
\* longest model output handed to validate_answer on its own
MaxTextLen == 3

(***************************************************************************)
(* Small helpers                                                           *)
(***************************************************************************)
Min(a, b) == IF a <= b THEN a ELSE b

Range(s) == {s[i] : i \in 1..Len(s)}

\* s[:n] of Python
Take(s, n) == SubSeq(s, 1, Min(n, Len(s)))

\* s[n:] of Python
Drop(s, n) == SubSeq(s, Min(n, Len(s)) + 1, Len(s))

SeqsUpTo(S, n) == UNION {[1..k -> S] : k \in 0..n}

Perms(n) == {f \in [1..n -> 1..n] : \A i, j \in 1..n : i # j => f[i] # f[j]}

\* d[k] = v of a Python dict
DictSet(d, k, v) == [x \in (DOMAIN d) \cup {k} |-> IF x = k THEN v ELSE d[x]]

EmptyDict == [x \in {} |-> TRUE]

(***************************************************************************)
(* utils/text_tools.py                                                     *)
(***************************************************************************)
RECURSIVE LStrip(_)
LStrip(s) == IF s # <<>> /\ Head(s) = " " THEN LStrip(Tail(s)) ELSE s

RECURSIVE RStrip(_)
RStrip(s) == IF s # <<>> /\ s[Len(s)] = " " THEN RStrip(SubSeq(s, 1, Len(s) - 1)) ELSE s

\* str.strip()
Strip(s) == RStrip(LStrip(s))

\* Symbols of the texts validate_answer parses. Most are one character; three
\* stand for a longer piece of text that the patterns treat as a whole:
\* "(A)" a choice in brackets, BOXED a LaTeX \boxed{A}, KEYWORD "answer is".
BOXED == "boxed{A}"

KEYWORD == "answer is"

Digits == {"4"}

\* symbols that begin and end with a word character (\w of the patterns)
WordSyms == {"4", "A", "b", KEYWORD}

\* len() of a text
SymLen(c) == IF c = BOXED THEN 9 ELSE IF c = KEYWORD THEN 9 ELSE IF c = "(A)" THEN 3 ELSE 1

RECURSIVE TextLen(_)
TextLen(s) == IF s = <<>> THEN 0 ELSE SymLen(Head(s)) + TextLen(Tail(s))

\* raise ValueError: a result that is no value
ValueError == [ok |-> FALSE, val |-> <<>>]

Value(v) == [ok |-> TRUE, val |-> v]

\* s.replace(',', '')
RECURSIVE RemoveCommas(_)
RemoveCommas(s) ==
    IF s = <<>> THEN <<>>
    ELSE IF Head(s) = "," THEN RemoveCommas(Tail(s))
    ELSE <<Head(s)>> \o RemoveCommas(Tail(s))

\* the digits that follow one another from position i on
RECURSIVE SpanDigits(_, _)
SpanDigits(s, i) == IF i <= Len(s) /\ s[i] \in Digits THEN 1 + SpanDigits(s, i + 1) ELSE 0

\* the match of -?\d+\.?\d* that starts at position i (int = 0: none): its
\* sign, the digits before and after the point, and where it ends
NumberAt(s, i) ==
    LET neg == s[i] = "-"
        j == IF neg THEN i + 1 ELSE i
        n == SpanDigits(s, j)
        k == j + n
        dot == k <= Len(s) /\ s[k] = "."
        m == IF dot THEN SpanDigits(s, k + 1) ELSE 0
    IN  [neg |-> neg /\ n > 0, int |-> n, frac |-> m,
         next |-> IF dot THEN k + 1 + m ELSE k]

\* re.findall(r'-?\d+\.?\d*', s): the matches from left to right, each as the
\* float it denotes (a sign and the digits on either side of the point)
RECURSIVE FindNumbers(_, _)
FindNumbers(s, i) ==
    IF i > Len(s) THEN <<>>
    ELSE LET m == NumberAt(s, i)
         IN  IF m.int = 0 THEN FindNumbers(s, i + 1)
             ELSE <<[neg |-> m.neg, int |-> m.int, frac |-> m.frac]>>
                      \o FindNumbers(s, m.next)

to_float_maybe(s) ==
    IF s = <<>> THEN ValueError
    ELSE LET matches == FindNumbers(RemoveCommas(s), 1)
         IN  IF matches # <<>> THEN Value(matches[Len(matches)]) ELSE ValueError

\* str.upper() on a symbol
Upper(c) == IF c = "b" THEN "B" ELSE IF c = "a" THEN "A" ELSE c

UpperText(s) == [i \in 1..Len(s) |-> Upper(s[i])]

\* text.rsplit(pat, 1)[-1]: what follows the last occurrence of pat
RECURSIVE AfterLast(_, _)
AfterLast(s, pat) ==
    IF pat \in Range(Tail(s)) THEN AfterLast(Tail(s), pat)
    ELSE IF Head(s) = pat THEN Tail(s)
    ELSE AfterLast(Tail(s), pat)

\* re.findall(r'\b([A-E])\b', s, re.IGNORECASE): the letters that stand alone
RECURSIVE WordMatches(_, _)
WordMatches(s, i) ==
    IF i > Len(s) THEN <<>>
    ELSE IF /\ s[i] \in {"A", "b"}
            /\ (i = 1 \/ s[i - 1] \notin WordSyms)
            /\ (i = Len(s) \/ s[i + 1] \notin WordSyms)
         THEN <<s[i]>> \o WordMatches(s, i + 1)
         ELSE WordMatches(s, i + 1)

\* re.findall(r'\(([A-E])\)', s, re.IGNORECASE)
RECURSIVE ParenMatches(_)
ParenMatches(s) ==
    IF s = <<>> THEN <<>>
    ELSE IF Head(s) = "(A)" THEN <<"A">> \o ParenMatches(Tail(s))
    ELSE ParenMatches(Tail(s))

\* re.search(r'([A-E])', s, re.IGNORECASE) finds the first such letter of
\* each of these symbols: KEYWORD has the a of "answer"
RECURSIVE AnyLetters(_)
AnyLetters(s) ==
    IF s = <<>> THEN <<>>
    ELSE IF Head(s) \in {"A", "b"} THEN <<Head(s)>> \o AnyLetters(Tail(s))
    ELSE IF Head(s) = "(A)" THEN <<"A">> \o AnyLetters(Tail(s))
    ELSE IF Head(s) = KEYWORD THEN <<"a">> \o AnyLetters(Tail(s))
    ELSE AnyLetters(Tail(s))

\* a list's first element when the conclusion was located, else its last
Pick(matches, found_keyword) ==
    IF found_keyword THEN matches[1] ELSE matches[Len(matches)]

extract_choice(s) ==
    IF s = <<>> THEN ValueError
    ELSE LET text == Strip(s)
             found_keyword == KEYWORD \in Range(text)
             text_lower == IF found_keyword THEN Strip(AfterLast(text, KEYWORD)) ELSE text
             matches_paren == ParenMatches(text_lower)
             matches_word == WordMatches(text_lower, 1)
             match_simple == AnyLetters(s)
         IN  IF BOXED \in Range(text) THEN Value("A")
             ELSE IF matches_paren # <<>> THEN Value(Upper(Pick(matches_paren, found_keyword)))
             ELSE IF matches_word # <<>> THEN Value(Upper(Pick(matches_word, found_keyword)))
             ELSE IF TextLen(Strip(s)) < 10 /\ match_simple # <<>>
                  THEN Value(Upper(match_simple[1]))
             ELSE ValueError

\* bool as the worker's is_correct holds it
Bool(b) == IF b THEN "True" ELSE "False"

\* the try block of validate_answer: "True", "False", or the ValueError that
\* to_float_maybe or extract_choice raised
validate_try(prediction, ground_truth, task_type) ==
    LET gt == Strip(ground_truth)
    IN  IF task_type = "math"
        THEN LET pred_val == to_float_maybe(prediction)
                 gt_val == to_float_maybe(gt)
             IN  IF ~pred_val.ok \/ ~gt_val.ok THEN "ValueError"
                 ELSE Bool(pred_val.val = gt_val.val)
        ELSE IF task_type = "multiple_choice"
        THEN LET pred_choice == extract_choice(prediction)
             IN  IF ~pred_choice.ok THEN "ValueError"
                 ELSE Bool(<<pred_choice.val>> = UpperText(gt))
        ELSE Bool(Strip(prediction) = gt)

\* mutant: no except clause, the ValueError leaves validate_answer
validate_answer_NoExcept(prediction, ground_truth, task_type) ==
    validate_try(prediction, ground_truth, task_type)

\* validate_answer: `except ValueError: return False`
validate_answer(prediction, ground_truth, task_type) ==
    LET r == validate_try(prediction, ground_truth, task_type)
    IN  IF r = "ValueError" THEN "False" ELSE r

(***************************************************************************)
(* State                                                                   *)
(***************************************************************************)
VARIABLES
    \* ---- one call of evaluate_parallel (EvalSpec) ----
    ev_prompts,        \* the prompts argument
    ev_max_retries,    \* self.max_retries
    ev_concurrency,    \* self.concurrency
    workers,           \* one record per submitted _worker(p) future
    collected,         \* futures the as_completed loop has consumed
    acc,               \* correct, wrong, detailed_res, failed_outputs
    ev_pc,             \* "running" inside the with-block, then "returned"
    \* ---- BakeEngine.run (Spec) ----
    group_size,        \* self.group_size
    max_retries,       \* self.max_retries
    iterative,         \* config['bake']['iterative'], set by main
    initial_prompts,   \* the caller's seed list
    current_prompts,   \* the Active Prompt Pool
    attr,              \* pending rules
    all_rule,          \* merged rules
    idx,               \* index of the sample being processed
    pc,                \* position of run
    sample,            \* locals of the current iteration
    status_log,        \* _log_optimization_status: rows written, and the last one
    final_out,         \* (final_prompts, final_rule) once run has returned
    hist,              \* history of collaborator calls and pool installs
    \* ---- one call of refine, extract_rule, combine_rules (CallSpec) ----
    call               \* the function, its arguments, its position and result

evVars == <<ev_prompts, ev_max_retries, ev_concurrency, workers, collected, acc, ev_pc>>

runVars == <<group_size, max_retries, iterative, initial_prompts, current_prompts,
             attr, all_rule, idx, pc, sample, status_log, final_out, hist>>

vars == <<evVars, runVars, call>>

(***************************************************************************)
(* Inputs                                                                  *)
(***************************************************************************)
\* prompt texts handed to evaluate_parallel in EvalSpec (lists may repeat one)
PromptTexts == {<<"p1">>, <<"p2">>}

\* the sample's ground truth, item['answer']
GroundTruth == <<"4">>

\* what scorer.chat can return: a right answer, the same with trailing
\* blanks, a wrong answer
RawOutputs == {<<"4">>, <<"4", " ">>, <<"5">>}

\* scorer.chat raises (connection error, timeout)
RAISE == <<"RAISE">>

\* the raw_output slot of a worker that got no response
NoRaw == <<"None">>

(***************************************************************************)
(* evaluate_parallel: the worker                                           *)
(***************************************************************************)
\* a future just submitted
NewWorker(p) ==
    [p |-> p, state |-> "queued", attempt |-> 0, is_correct |-> "None",
     raw |-> NoRaw, calls |-> 0, sleeps |-> 0, responses |-> 0]

\* mutant: the loop allows one attempt more than max_retries
LoopContinues_OneMore(w, retries) == w.attempt <= retries

\* for _ in range(self.max_retries): another iteration is due
LoopContinues(w, retries) == w.attempt < retries

\* mutant: a wrong answer is retried like a failed call
AfterResponse_RetryWrong(w, raw_out) ==
    IF validate_answer(raw_out, GroundTruth, "general") = "True"
    THEN [w EXCEPT !.state = "done", !.attempt = @ + 1, !.is_correct = "True",
                   !.raw = raw_out, !.calls = @ + 1, !.responses = @ + 1]
    ELSE [w EXCEPT !.attempt = @ + 1, !.calls = @ + 1, !.responses = @ + 1]

\* scorer.chat returned raw: validate and return (p, is_correct, raw); an
\* exception out of validate_answer is caught like one out of scorer.chat
AfterResponseOn(w, raw_out, answer_gt, task_type) ==
    LET is_correct == validate_answer(raw_out, answer_gt, task_type)
    IN  IF is_correct \in {"True", "False"}
        THEN [w EXCEPT !.state = "done",
                       !.attempt = @ + 1,
                       !.is_correct = is_correct,
                       !.raw = raw_out,
                       !.calls = @ + 1,
                       !.responses = @ + 1]
        ELSE [w EXCEPT !.attempt = @ + 1, !.calls = @ + 1, !.sleeps = @ + 1,
                       !.responses = @ + 1]

\* the same for the sample of EvalSpec
AfterResponse(w, raw_out) == AfterResponseOn(w, raw_out, GroundTruth, "general")

\* mutant: a failed call is reported as an incorrect answer
AfterException_AsWrong(w) ==
    [w EXCEPT !.state = "done", !.attempt = @ + 1, !.is_correct = "False",
              !.raw = <<>>, !.calls = @ + 1, !.sleeps = @ + 1]

\* scorer.chat raised: sleep retry_delay and go round the loop
AfterException(w) ==
    [w EXCEPT !.attempt = @ + 1, !.calls = @ + 1, !.sleeps = @ + 1]

\* the loop ran out: return (p, None, None)
GiveUp(w) == [w EXCEPT !.state = "done", !.is_correct = "None", !.raw = NoRaw]

\* _worker(p) run to its end against a script of scorer behaviours, one per
\* call: RAISE or the raw output returned
RECURSIVE RunWorker(_, _, _)
RunWorker(w, script, retries) ==
    IF w.state = "done" THEN w
    ELSE IF ~LoopContinues(w, retries) \/ script = <<>> THEN GiveUp(w)
    ELSE IF Head(script) = RAISE
         THEN RunWorker(AfterException(w), Tail(script), retries)
         ELSE RunWorker(AfterResponse(w, Head(script)), Tail(script), retries)

(***************************************************************************)
(* evaluate_parallel: the as_completed loop                                *)
(***************************************************************************)
EmptyAcc ==
    [correct |-> <<>>, wrong |-> <<>>, detailed_res |-> EmptyDict,
     failed_outputs |-> EmptyDict]

\* mutant: `if not is_correct` files a missing result under wrong
Aggregate_NoneAsWrong(a, w) ==
    IF w.is_correct = "True"
    THEN [a EXCEPT !.detailed_res = DictSet(@, w.p, TRUE),
                   !.correct = Append(@, w.p)]
    ELSE [a EXCEPT !.detailed_res = DictSet(@, w.p, FALSE),
                   !.wrong = Append(@, w.p),
                   !.failed_outputs = DictSet(@, w.p, w.raw)]

\* mutant: the loop is left on the first incorrect result
Aggregate_StopAtWrong(a, w) ==
    IF w.is_correct = "None" \/ a.wrong # <<>> THEN a
    ELSE IF w.is_correct = "True"
         THEN [a EXCEPT !.detailed_res = DictSet(@, w.p, TRUE),
                        !.correct = Append(@, w.p)]
         ELSE [a EXCEPT !.detailed_res = DictSet(@, w.p, FALSE),
                        !.wrong = Append(@, w.p),
                        !.failed_outputs = DictSet(@, w.p, w.raw)]

\* one pass of the loop body for a finished future
Aggregate(a, w) ==
    IF w.is_correct = "None" THEN a
    ELSE IF w.is_correct = "True"
         THEN [a EXCEPT !.detailed_res = DictSet(@, w.p, TRUE),
                        !.correct = Append(@, w.p)]
         ELSE [a EXCEPT !.detailed_res = DictSet(@, w.p, FALSE),
                        !.wrong = Append(@, w.p),
                        !.failed_outputs = DictSet(@, w.p, w.raw)]

\* the whole loop, the futures completing in the given order
RECURSIVE AggregateAll(_, _, _)
AggregateAll(a, ws, order) ==
    IF order = <<>> THEN a
    ELSE AggregateAll(Aggregate(a, ws[Head(order)]), ws, Tail(order))

(***************************************************************************)
(* EvalSpec: one call of evaluate_parallel, thread by thread               *)
(***************************************************************************)
\* the defaults the variables of run hold while EvalSpec runs
EmptyRule == [src |-> {}, text |-> ""]

IdleSample ==
    [Pc |-> <<>>, Pi |-> <<>>, failed_outputs |-> EmptyDict,
     candidate_pairs |-> <<>>, verdicts |-> <<>>, valid_pairs |-> <<>>,
     merged |-> EmptyRule]

NoRow == [id |-> -1, status |-> "", initial_wrong |-> 0, verified_success |-> 0]

\* what has happened so far (read by the properties, never by run):
\*   gen_calls    optimizer calls for prompt generation made inside the loop
\*   added        samples whose rule was appended to attr
\*   uses         per such sample, the combine_rules calls its rule went into
\*   last_eval    the sample last put through its first evaluation, and the
\*                pool it was evaluated against
\*   last_install the sample at which the pool was last replaced, and the
\*                pool installed
\*   prev_pool    the pool in force before that replacement
\*   last_gen     the sample of the last regeneration, whether the optimizer
\*                raised, and the prompts it yielded
\*   combines     combine_rules calls that reached the optimizer, inside the
\*                loop over the dataset and after it (counted up to CountCap)
\*   final_gen    the final _generate_prompts_from_rule: calls of the
\*                function, and calls it made to the optimizer
\*   tier1        tier-1 merges completed (at most one per sample)
IdleHist ==
    [gen_calls |-> 0, added |-> {}, uses |-> [x \in {} |-> 0],
     last_eval |-> [at |-> -1, pool |-> <<>>],
     last_install |-> [at |-> -1, pool |-> <<>>],
     prev_pool |-> <<>>,
     last_gen |-> [at |-> -1, raised |-> FALSE, prompts |-> <<>>],
     combines |-> [loop |-> 0, final |-> 0],
     final_gen |-> [calls |-> 0, chats |-> 0],
     tier1 |-> 0]

\* one more call on a counter of the history
Count(n) == Min(n + 1, CountCap)

\* no call under way
NoCallYet == [fn |-> "none", pc |-> "idle"]

RunIdle ==
    /\ group_size = 1
    /\ max_retries = 0
    /\ iterative = FALSE
    /\ initial_prompts = <<>>
    /\ current_prompts = <<>>
    /\ attr = <<>>
    /\ all_rule = <<>>
    /\ idx = 0
    /\ pc = "idle"
    /\ sample = IdleSample
    /\ status_log = [rows |-> 0, last |-> NoRow]
    /\ final_out = [prompts |-> <<>>, rule |-> ""]
    /\ hist = IdleHist

\* entry of evaluate_parallel: the result holders are empty and every prompt
\* has been submitted to the executor
EvalInit ==
    /\ ev_prompts \in SeqsUpTo(PromptTexts, MaxPrompts)
    /\ ev_max_retries \in 0..MaxRetries
    /\ ev_concurrency \in 1..MaxConcurrency
    /\ workers = [i \in 1..Len(ev_prompts) |-> NewWorker(ev_prompts[i])]
    /\ collected = {}
    /\ acc = EmptyAcc
    /\ ev_pc = "running"
    /\ RunIdle
    /\ call = NoCallYet

Running == {i \in 1..Len(workers) : workers[i].state = "running"}

\* a pool thread takes the oldest queued task
WorkerStart(i) ==
    /\ ev_pc = "running"
    /\ workers[i].state = "queued"
    /\ Cardinality(Running) < ev_concurrency
    /\ \A j \in 1..(i - 1) : workers[j].state # "queued"
    /\ workers' = [workers EXCEPT ![i].state = "running"]
    /\ UNCHANGED <<ev_prompts, ev_max_retries, ev_concurrency, collected, acc, ev_pc>>
    /\ UNCHANGED <<runVars, call>>

\* one scorer.chat call that raises
WorkerCallRaises(i) ==
    /\ ev_pc = "running"
    /\ workers[i].state = "running"
    /\ LoopContinues(workers[i], ev_max_retries)
    /\ workers' = [workers EXCEPT ![i] = AfterException(@)]
    /\ UNCHANGED <<ev_prompts, ev_max_retries, ev_concurrency, collected, acc, ev_pc>>
    /\ UNCHANGED <<runVars, call>>

\* one scorer.chat call that returns a response
WorkerCallReturns(i) ==
    /\ ev_pc = "running"
    /\ workers[i].state = "running"
    /\ LoopContinues(workers[i], ev_max_retries)
    /\ \E raw_out \in RawOutputs :
          workers' = [workers EXCEPT ![i] = AfterResponse(@, raw_out)]
    /\ UNCHANGED <<ev_prompts, ev_max_retries, ev_concurrency, collected, acc, ev_pc>>
    /\ UNCHANGED <<runVars, call>>

\* the retry loop is over without a response
WorkerExhausted(i) ==
    /\ ev_pc = "running"
    /\ workers[i].state = "running"
    /\ ~LoopContinues(workers[i], ev_max_retries)
    /\ workers' = [workers EXCEPT ![i] = GiveUp(@)]
    /\ UNCHANGED <<ev_prompts, ev_max_retries, ev_concurrency, collected, acc, ev_pc>>
    /\ UNCHANGED <<runVars, call>>

\* as_completed yields a finished future; the loop body files its result
Collect(i) ==
    /\ ev_pc = "running"
    /\ workers[i].state = "done"
    /\ i \notin collected
    /\ collected' = collected \cup {i}
    /\ acc' = Aggregate(acc, workers[i])
    /\ UNCHANGED <<ev_prompts, ev_max_retries, ev_concurrency, workers, ev_pc>>
    /\ UNCHANGED <<runVars, call>>

\* mutant: the function returns from inside the loop, on the first future
\* that completes, without waiting for the executor
EvalReturn_FirstCompleted ==
    /\ ev_pc = "running"
    /\ collected # {}
    /\ ev_pc' = "returned"
    /\ UNCHANGED <<ev_prompts, ev_max_retries, ev_concurrency, workers, collected, acc>>
    /\ UNCHANGED <<runVars, call>>

\* every future is consumed: leave the with-block and return
EvalReturn ==
    /\ ev_pc = "running"
    /\ collected = 1..Len(workers)
    /\ ev_pc' = "returned"
    /\ UNCHANGED <<ev_prompts, ev_max_retries, ev_concurrency, workers, collected, acc>>
    /\ UNCHANGED <<runVars, call>>

EvalNext ==
    \/ \E i \in 1..Len(workers) : WorkerStart(i)
    \/ \E i \in 1..Len(workers) : WorkerCallRaises(i)
    \/ \E i \in 1..Len(workers) : WorkerCallReturns(i)
    \/ \E i \in 1..Len(workers) : WorkerExhausted(i)
    \/ \E i \in 1..Len(workers) : Collect(i)
    \/ EvalReturn

EvalSpec == EvalInit /\ [][EvalNext]_vars

\* the pool threads and the main thread are scheduled: a call to the scorer
\* returns or raises, a sleep ends, a finished future is yielded
FairEvalSpec == EvalSpec /\ WF_vars(EvalNext)

(***************************************************************************)
(* Collaborator answers seen by run                                        *)
(***************************************************************************)
\* the caller's seed prompts
SeedPrompts == <<(<<"s1">>), (<<"s2">>)>>

\* what scorer.chat can do on one call made on behalf of run
ScorerMoves == {RAISE, <<"4">>, <<"5">>}

\* an optimizer answer to refine is a sequence of blocks: a rewrite between
\* <REWRITE_BEGIN> and </REWRITE_END> ("strict"), between <REWRITE BEGIN> and
\* </REWRITE END> ("loose"), or text outside any tag ("none")
BlockTags == {"strict", "loose", "none"}

BlockBodies == {<<"c1">>, <<" ", "c1">>, <<"c2">>}

Blocks == [tag : BlockTags, body : BlockBodies]

RefineAnswers == SeqsUpTo(Blocks, MaxBlocks)

\* texts the optimizer returns for a rule: empty or not
RuleTexts == {"", "rule"}

MergedTexts == {"", "merged"}

\* a line of an optimizer answer to prompt generation:
\*   "short"   at most 10 characters
\*   "here"    longer, starting with "Here"
\*   "plain"   longer, the prompt itself
\*   "quoted"  longer, the prompt between quotes
\*   "numbered" longer, "1. " and the prompt
\*   "quotes"  longer, nothing but quote characters
LineKinds == {"short", "here", "plain", "quoted", "numbered", "quotes"}

GenLines ==
    {[kind |-> "short", body |-> <<"g1">>], [kind |-> "here", body |-> <<"g1">>],
     [kind |-> "quotes", body |-> <<"g1">>], [kind |-> "plain", body |-> <<"g1">>],
     [kind |-> "quoted", body |-> <<"g2">>], [kind |-> "numbered", body |-> <<"g2">>]}

GenAnswers == SeqsUpTo(GenLines, MaxLines)

\* count=5 of the regeneration that follows a tier-1 merge
IterativeCount == 5

\* config['bake']['max_output_prompts']
max_output_prompts == 1

(***************************************************************************)
(* text_tools.extract_tags                                                 *)
(***************************************************************************)
RECURSIVE SelectBodies(_, _)
SelectBodies(answer, tags) ==
    IF answer = <<>> THEN <<>>
    ELSE IF Head(answer).tag \in tags
         THEN <<Head(answer).body>> \o SelectBodies(Tail(answer), tags)
         ELSE SelectBodies(Tail(answer), tags)

\* the strict pattern first, the loose one (which also matches the strict
\* spelling) only when the strict one found nothing; every match stripped
extract_tags(answer) ==
    LET strict == SelectBodies(answer, {"strict"})
        matches == IF strict # <<>> THEN strict
                   ELSE SelectBodies(answer, {"strict", "loose"})
    IN  [i \in 1..Len(matches) |-> Strip(matches[i])]

(***************************************************************************)
(* BakeEngine.refine, extract_rule, combine_rules, generation              *)
(***************************************************************************)
\* the lists of rewrites extract_tags can hand refine
ImprovedLists == {extract_tags(answer) : answer \in RefineAnswers}

\* mutant: the rewrites are paired with the last incorrect prompts
refine_PairsFromEnd(wrong, improved) ==
    LET n == Min(Len(wrong), Len(improved))
    IN  [i \in 1..n |-> <<wrong[Len(wrong) - n + i], improved[i]>>]

\* mutant: every rewrite is kept, the surplus paired with the last prompt
refine_NoTruncate(wrong, improved) ==
    [i \in 1..Len(improved) |-> <<wrong[Min(i, Len(wrong))], improved[i]>>]

\* refine once the rewrites are extracted: pair the i-th wrong prompt with
\* the i-th rewrite
refine(wrong, improved) ==
    [i \in 1..Min(Len(wrong), Len(improved)) |-> <<wrong[i], improved[i]>>]

\* a rule is its text and, as history, the samples whose extracted rules it
\* was distilled from (EmptyRule is the "" the code returns without a call)
\* extract_rule once the optimizer has answered
extract_rule(pairs, text, i) ==
    IF pairs = <<>> THEN EmptyRule ELSE [src |-> {i}, text |-> text]

\* mutant: the `if not rule_text` guard is missing
generate_chats_Always(rule_text) == 1

\* optimizer.chat calls one invocation of _generate_prompts_from_rule makes
generate_chats(rule_text) == IF rule_text = "" THEN 0 ELSE 1

\* combine_rules once the optimizer has answered
combine_rules(rules, text) ==
    IF rules = <<>> THEN EmptyRule
    ELSE [src |-> UNION {rules[i].src : i \in 1..Len(rules)}, text |-> text]

\* mutant: one optimizer call per incorrect prompt
refine_chats_PerPrompt(wrong) == Len(wrong)

\* optimizer.chat calls one invocation of refine makes: `if not wrong:
\* return []`, else the single call of line 85
refine_chats(wrong) == IF wrong = <<>> THEN 0 ELSE 1

\* mutant: the `if not pairs` guard is missing
extract_rule_chats_Always(pairs) == 1

\* optimizer.chat calls one invocation of extract_rule makes
extract_rule_chats(pairs) == IF pairs = <<>> THEN 0 ELSE 1

\* optimizer.chat calls one invocation of combine_rules makes
combine_rules_chats(rules) == IF rules = <<>> THEN 0 ELSE 1

\* the filter of _generate_prompts_from_rule over the answer's lines
RECURSIVE CleanLines(_)
CleanLines(lines) ==
    IF lines = <<>> THEN <<>>
    ELSE IF Head(lines).kind \in {"short", "here"} THEN CleanLines(Tail(lines))
    ELSE <<Head(lines).body>> \o CleanLines(Tail(lines))

\* a line of quotes only is empty once stripped, and line[0] raises
LinesRaise(lines) == \E i \in 1..Len(lines) : lines[i].kind = "quotes"

\* _generate_prompts_from_rule once the optimizer has answered (or raised)
generate_prompts(raised, answer, count) ==
    IF raised \/ LinesRaise(answer) THEN <<>>
    ELSE Take(CleanLines(answer), count)

\* what one call of _generate_prompts_from_rule with a non-empty rule can
\* come to: whether optimizer.chat raised, and the prompts returned
GenOutcomes(count) ==
    {[raised |-> r, prompts |-> generate_prompts(r, answer, count)] :
        r \in BOOLEAN, answer \in GenAnswers}

IterativeOutcomes == GenOutcomes(IterativeCount)

FinalOutcomes == GenOutcomes(max_output_prompts)

\* `if not rule_text: return []`, no call made
NoCall == [raised |-> FALSE, prompts |-> <<>>]

(***************************************************************************)
(* BakeEngine.run                                                          *)
(***************************************************************************)
\* evaluate_parallel as run sees it: every worker run to its end against
\* the scorer's behaviour, the futures consumed in some completion order
\* the tuple (p, is_correct, raw) a worker returns
Returned(w) == [p |-> w.p, is_correct |-> w.is_correct, raw |-> w.raw]

WorkerOutcomes(p, retries) ==
    {Returned(RunWorker([NewWorker(p) EXCEPT !.state = "running"], script, retries)) :
        script \in [1..retries -> ScorerMoves]}

EvalOutcomes(prompts, retries) ==
    {ws \in [1..Len(prompts) -> UNION {WorkerOutcomes(prompts[i], retries) : i \in 1..Len(prompts)}] :
        \A i \in 1..Len(prompts) : ws[i].p = prompts[i]}

Verdicts(ws) == [i \in 1..Len(ws) |-> ws[i].is_correct]

\* mutant: the first evaluation keeps reading the seed
EvalPool_Seed == initial_prompts

\* the pool the first evaluation of a sample reads
EvalPool == current_prompts

\* mutant: every candidate pair passes the gate
ValidPairs_NoGate(pairs, good) == pairs

\* [(old, new) for old, new in candidate_pairs if new in Pc_new]
RECURSIVE ValidPairs(_, _)
ValidPairs(pairs, good) ==
    IF pairs = <<>> THEN <<>>
    ELSE IF Head(pairs)[2] \in Range(good)
         THEN <<Head(pairs)>> \o ValidPairs(Tail(pairs), good)
         ELSE ValidPairs(Tail(pairs), good)

\* _log_optimization_status
LogStatus(log, i, status, initial_wrong, verified_success) ==
    [rows |-> log.rows + 1,
     last |-> [id |-> i, status |-> status, initial_wrong |-> initial_wrong,
               verified_success |-> verified_success]]

\* history: the rules handed to one combine_rules call
Consume(uses, rules) ==
    [i \in DOMAIN uses |->
        IF \E k \in 1..Len(rules) : i \in rules[k].src THEN uses[i] + 1 ELSE uses[i]]

\* run at its entry
RunInit ==
    /\ group_size \in 1..MaxGroupSize
    /\ max_retries \in 0..MaxRunRetries
    /\ iterative \in BOOLEAN
    /\ initial_prompts = SeedPrompts
    /\ current_prompts = initial_prompts
    /\ attr = <<>>
    /\ all_rule = <<>>
    /\ idx = 0
    /\ pc = "loop"
    /\ sample = IdleSample
    /\ status_log = [rows |-> 0, last |-> NoRow]
    /\ final_out = [prompts |-> <<>>, rule |-> ""]
    /\ hist = [IdleHist EXCEPT !.prev_pool = SeedPrompts,
                               !.last_install = [at |-> -1, pool |-> SeedPrompts]]

Init ==
    /\ RunInit
    /\ ev_prompts = <<>>
    /\ ev_max_retries = 0
    /\ ev_concurrency = 1
    /\ workers = <<>>
    /\ collected = {}
    /\ acc = EmptyAcc
    /\ ev_pc = "idle"
    /\ call = NoCallYet

\* `continue`, or the end of the loop body: on to the next sample
NextSample ==
    /\ idx' = idx + 1
    /\ pc' = "loop"
    /\ sample' = IdleSample

\* mutant: `>` for `>=`
RecursiveDue_OffByOne(rules, g) == Len(rules) > g

\* the test of `while len(all_rule) >= self.group_size`
RecursiveDue(rules, g) == Len(rules) >= g

\* mutant: `>` for `>=`
Tier1Due_Strict(rules, g) == Len(rules) > g

\* mutant: the tier-1 merge fires one rule early
Tier1Due_OneEarly(rules, g) == Len(rules) >= g - 1

\* the test of `if len(attr) >= self.group_size`
Tier1Due(rules, g) == Len(rules) >= g

\* where run stands once the tier-1 block of a sample is over
EnterRecursive(rules) ==
    IF RecursiveDue(rules, group_size)
    THEN /\ pc' = "recursive"
         /\ UNCHANGED <<idx, sample>>
    ELSE NextSample

\* run goes on from what the first evaluation returned: `if not Pi`
FirstEvalResult(res) ==
    /\ IF res.wrong = <<>>
       THEN /\ status_log' = LogStatus(status_log, idx, "Skipped (All Correct)", 0, 0)
            /\ NextSample
       ELSE /\ sample' = [sample EXCEPT !.Pc = res.correct, !.Pi = res.wrong,
                                        !.failed_outputs = res.failed_outputs]
            /\ pc' = "refine"
            /\ UNCHANGED <<idx, status_log>>
    /\ hist' = [hist EXCEPT !.last_eval = [at |-> idx, pool |-> EvalPool]]
    /\ UNCHANGED <<group_size, max_retries, iterative, initial_prompts, current_prompts,
                   attr, all_rule, final_out>>

\* step 1: the first evaluation of the sample, against current_prompts
FirstEval ==
    /\ pc = "loop"
    /\ idx < NumSamples
    /\ \E ws \in EvalOutcomes(EvalPool, max_retries), order \in Perms(Len(EvalPool)) :
          FirstEvalResult(AggregateAll(EmptyAcc, ws, order))
    /\ UNCHANGED <<evVars, call>>

\* refine returns its pairs and run tests `if not candidate_pairs`
RefineReturns(improved) ==
    LET pairs == refine(sample.Pi, improved)
    IN  IF pairs = <<>>
        THEN /\ status_log' = LogStatus(status_log, idx, "Failed (Refine Step)", Len(sample.Pi), 0)
             /\ NextSample
        ELSE /\ sample' = [sample EXCEPT !.candidate_pairs = pairs]
             /\ pc' = "verify"
             /\ UNCHANGED <<idx, status_log>>

\* step 2: refine, the optimizer answering; `if not improved` leads to the
\* write of the whole response to logs/optimizer_debug.txt
Refine ==
    /\ pc = "refine"
    /\ \E improved \in ImprovedLists :
          IF improved = <<>>
          THEN /\ pc' = "refine_notags"
               /\ UNCHANGED <<idx, sample, status_log>>
          ELSE RefineReturns(improved)
    /\ UNCHANGED <<group_size, max_retries, iterative, initial_prompts, current_prompts,
                   attr, all_rule, final_out, hist>>
    /\ UNCHANGED <<evVars, call>>

\* open("logs/optimizer_debug.txt", "a") succeeds: the response is written
\* and refine returns the empty list
RefineDebugWrite ==
    /\ pc = "refine_notags"
    /\ RefineReturns(<<>>)
    /\ UNCHANGED <<group_size, max_retries, iterative, initial_prompts, current_prompts,
                   attr, all_rule, final_out, hist>>
    /\ UNCHANGED <<evVars, call>>

\* the same open raises (nothing creates the logs directory; main points
\* every configured path at --output_dir): refine does not catch it, and
\* run ends with the exception
RefineDebugWriteRaises ==
    /\ pc = "refine_notags"
    /\ pc' = "io_error"
    /\ UNCHANGED <<group_size, max_retries, iterative, initial_prompts, current_prompts,
                   attr, all_rule, idx, sample, status_log, final_out, hist>>
    /\ UNCHANGED <<evVars, call>>

\* new_prompts_to_test
Candidates == [i \in 1..Len(sample.candidate_pairs) |-> sample.candidate_pairs[i][2]]

\* run goes on from what the verification evaluation returned: the gate
\* and `if not valid_pairs`
VerifyResult(res, verdicts) ==
    /\ LET valid == ValidPairs(sample.candidate_pairs, res.correct)
       IN  IF valid = <<>>
           THEN /\ status_log' = LogStatus(status_log, idx, "Failed (Verification)", Len(sample.Pi), 0)
                /\ NextSample
           ELSE /\ status_log' = LogStatus(status_log, idx, "Success", Len(sample.Pi), Len(valid))
                /\ sample' = [sample EXCEPT !.verdicts = verdicts,
                                            !.valid_pairs = valid]
                /\ pc' = "extract"
                /\ UNCHANGED idx
    /\ UNCHANGED <<group_size, max_retries, iterative, initial_prompts, current_prompts,
                   attr, all_rule, final_out, hist>>

\* step 3: the verification evaluation of the candidates and the gate
Verify ==
    /\ pc = "verify"
    /\ \E ws \in EvalOutcomes(Candidates, max_retries), order \in Perms(Len(Candidates)) :
          VerifyResult(AggregateAll(EmptyAcc, ws, order), Verdicts(ws))
    /\ UNCHANGED <<evVars, call>>

\* mutant: the rule is appended whatever extract_rule returned
AppendRule_NoGuard(rules, rule) == Append(rules, rule)

\* `if rule: attr.append(rule)`
AppendRule(rules, rule) == IF rule.text # "" THEN Append(rules, rule) ELSE rules

\* step 4: extract_rule, the optimizer answering; a non-empty rule joins attr
ExtractRule ==
    /\ pc = "extract"
    /\ \E text \in RuleTexts :
          LET rule == extract_rule(sample.valid_pairs, text, idx)
              attr1 == AppendRule(attr, rule)
          IN  /\ attr' = attr1
              /\ hist' = IF rule.text # ""
                         THEN [hist EXCEPT !.added = @ \cup {idx},
                                           !.uses = [i \in (DOMAIN @) \cup {idx} |->
                                                        IF i = idx THEN 0 ELSE @[i]]]
                         ELSE hist
              /\ IF Tier1Due(attr1, group_size)
                 THEN /\ pc' = "tier1"
                      /\ UNCHANGED <<idx, sample>>
                 ELSE EnterRecursive(all_rule)
    /\ UNCHANGED <<group_size, max_retries, iterative, initial_prompts, current_prompts,
                   all_rule, status_log, final_out>>
    /\ UNCHANGED <<evVars, call>>

\* step 5: the tier-1 merge of a full attr
Tier1Merge ==
    /\ pc = "tier1"
    /\ \E text \in MergedTexts :
          LET merged == combine_rules(attr, text)
          IN  /\ all_rule' = Append(all_rule, merged)
              /\ sample' = [sample EXCEPT !.merged = merged]
    /\ attr' = <<>>
    /\ hist' = [hist EXCEPT !.uses = Consume(@, attr),
                            !.combines.loop = Count(@),
                            !.tier1 = @ + 1]
    /\ pc' = "regen"
    /\ UNCHANGED <<group_size, max_retries, iterative, initial_prompts, current_prompts,
                   idx, status_log, final_out>>
    /\ UNCHANGED <<evVars, call>>

\* mutant: the generated prompts are added to the list in place
InstallPool_Extends(pool, new_prompts) == pool \o new_prompts

\* mutant: the pool is replaced whatever the regeneration yielded
InstallPool_Always(pool, new_prompts) == new_prompts

\* `if new_iterative_prompts: current_prompts = new_iterative_prompts`
InstallPool(pool, new_prompts) == IF new_prompts # <<>> THEN new_prompts ELSE pool

\* the regeneration that follows a tier-1 merge
Regenerate ==
    /\ pc = "regen"
    /\ \E out \in IterativeOutcomes :
          LET called == generate_chats(sample.merged.text) = 1
              new_prompts == out.prompts
          IN  /\ called \/ out = NoCall
              /\ current_prompts' = InstallPool(current_prompts, new_prompts)
              /\ hist' = [hist EXCEPT
                            !.gen_calls = IF called THEN @ + 1 ELSE @,
                            !.last_gen = [at |-> idx, raised |-> out.raised,
                                          prompts |-> new_prompts],
                            !.last_install = IF current_prompts' # current_prompts
                                             THEN [at |-> idx, pool |-> current_prompts']
                                             ELSE @,
                            !.prev_pool = IF current_prompts' # current_prompts
                                          THEN current_prompts ELSE @]
    /\ EnterRecursive(all_rule)
    /\ UNCHANGED <<group_size, max_retries, iterative, initial_prompts,
                   attr, all_rule, status_log, final_out>>
    /\ UNCHANGED <<evVars, call>>

\* mutant: the slice kept starts one rule early
MergeHead_KeepsLast(rules, g, text) ==
    <<combine_rules(Take(rules, g), text)>> \o Drop(rules, g - 1)

\* all_rule after one pass of a merge loop
MergeHead(rules, g, text) == <<combine_rules(Take(rules, g), text)>> \o Drop(rules, g)

\* mutant: the regeneration block sits in the recursive merge loop too
RecursiveMerge_Regenerates ==
    /\ pc = "recursive"
    /\ \E text \in MergedTexts, out \in IterativeOutcomes :
          /\ all_rule' = MergeHead(all_rule, group_size, text)
          /\ current_prompts' = InstallPool(current_prompts, out.prompts)
          /\ EnterRecursive(all_rule')
    /\ hist' = [hist EXCEPT !.combines.loop = Count(@)]
    /\ UNCHANGED <<group_size, max_retries, iterative, initial_prompts,
                   attr, status_log, final_out>>
    /\ UNCHANGED <<evVars, call>>

\* one pass of `while len(all_rule) >= self.group_size`
RecursiveMerge ==
    /\ pc = "recursive"
    /\ \E text \in MergedTexts :
          /\ all_rule' = MergeHead(all_rule, group_size, text)
          /\ EnterRecursive(all_rule')
    /\ hist' = [hist EXCEPT !.combines.loop = Count(@)]
    /\ UNCHANGED <<group_size, max_retries, iterative, initial_prompts, current_prompts,
                   attr, status_log, final_out>>
    /\ UNCHANGED <<evVars, call>>

\* step 6, `if attr:` the left-over pending rules are merged
FinalFlush ==
    /\ pc = "loop"
    /\ idx >= NumSamples
    /\ IF attr # <<>>
       THEN /\ \E text \in MergedTexts :
                  all_rule' = Append(all_rule, combine_rules(attr, text))
            /\ hist' = [hist EXCEPT !.uses = Consume(@, attr),
                                    !.combines.final = Count(@)]
       ELSE UNCHANGED <<all_rule, hist>>
    /\ pc' = "converge"
    /\ UNCHANGED <<group_size, max_retries, iterative, initial_prompts, current_prompts,
                   attr, idx, sample, status_log, final_out>>
    /\ UNCHANGED <<evVars, call>>

\* the test of `while len(all_rule) > 1`
ConvergeDue(rules) == Len(rules) > 1

\* one pass of `while len(all_rule) > 1`
Converge ==
    /\ pc = "converge"
    /\ ConvergeDue(all_rule)
    /\ \E text \in MergedTexts :
          all_rule' = MergeHead(all_rule, group_size, text)
    /\ hist' = [hist EXCEPT !.combines.final = Count(@)]
    /\ UNCHANGED <<group_size, max_retries, iterative, initial_prompts, current_prompts,
                   attr, idx, pc, sample, status_log, final_out>>
    /\ UNCHANGED <<evVars, call>>

\* the final rule, the final regeneration, and the return
FinalGen ==
    /\ pc = "converge"
    /\ ~ConvergeDue(all_rule)
    /\ \E out \in FinalOutcomes :
          LET final_rule == IF all_rule # <<>> THEN all_rule[1] ELSE EmptyRule
              called == generate_chats(final_rule.text) = 1
          IN  /\ called \/ out = NoCall
              /\ final_out' = [prompts |-> out.prompts, rule |-> final_rule.text]
              /\ hist' = [hist EXCEPT !.final_gen = [calls |-> Count(@.calls),
                                                     chats |-> IF called THEN Count(@.chats)
                                                               ELSE @.chats]]
    /\ pc' = "done"
    /\ UNCHANGED <<group_size, max_retries, iterative, initial_prompts, current_prompts,
                   attr, all_rule, idx, sample, status_log>>
    /\ UNCHANGED <<evVars, call>>

\* optimizer.chat raises inside refine, extract_rule or combine_rules: none
\* of them catches it, and run ends with the exception
OptimizerRaises ==
    /\ \/ pc \in {"refine", "extract", "tier1", "recursive"}
       \/ pc = "loop" /\ idx >= NumSamples /\ attr # <<>>
       \/ pc = "converge" /\ ConvergeDue(all_rule)
    /\ pc' = "aborted"
    /\ hist' = IF pc \in {"tier1", "recursive"}
               THEN [hist EXCEPT !.combines.loop = Count(@)]
               ELSE IF pc \in {"loop", "converge"}
                    THEN [hist EXCEPT !.combines.final = Count(@)]
                    ELSE hist
    /\ UNCHANGED <<group_size, max_retries, iterative, initial_prompts, current_prompts,
                   attr, all_rule, idx, sample, status_log, final_out>>
    /\ UNCHANGED <<evVars, call>>

Next ==
    \/ FirstEval
    \/ Refine
    \/ RefineDebugWrite
    \/ RefineDebugWriteRaises
    \/ Verify
    \/ ExtractRule
    \/ Tier1Merge
    \/ Regenerate
    \/ RecursiveMerge
    \/ FinalFlush
    \/ Converge
    \/ FinalGen
    \/ OptimizerRaises

Spec == Init /\ [][Next]_vars

\* run is one thread: whenever it can take a step, it does
FairSpec == Spec /\ WF_vars(Next)

(***************************************************************************)
(* ThreadedSpec: run with each evaluate_parallel call executed thread by   *)
(* thread                                                                  *)
(***************************************************************************)
\* executor.submit(_worker, p) for every prompt of the list
Submit(prompts) ==
    /\ ev_prompts' = prompts
    /\ ev_max_retries' = max_retries
    /\ workers' = [i \in 1..Len(prompts) |-> NewWorker(prompts[i])]
    /\ collected' = {}
    /\ acc' = EmptyAcc
    /\ ev_pc' = "running"
    /\ UNCHANGED ev_concurrency

\* the tasks of an executor that have not run to their end
Unfinished(ws) == SelectSeq(ws, LAMBDA w : w.state # "done")

\* evaluate_parallel has returned: its locals are gone, a task still
\* queued or running would live on
LeaveEval ==
    /\ ev_prompts' = <<>>
    /\ workers' = Unfinished(workers)
    /\ collected' = {}
    /\ acc' = EmptyAcc
    /\ ev_pc' = "idle"
    /\ UNCHANGED <<ev_max_retries, ev_concurrency>>

ThreadedInit ==
    /\ RunInit
    /\ ev_prompts = <<>>
    /\ ev_max_retries = 0
    /\ ev_concurrency = MaxConcurrency
    /\ workers = <<>>
    /\ collected = {}
    /\ acc = EmptyAcc
    /\ ev_pc = "idle"
    /\ call = NoCallYet

\* step 1: run calls evaluate_parallel on current_prompts
CallFirstEval ==
    /\ pc = "loop"
    /\ idx < NumSamples
    /\ pc' = "first_eval"
    /\ Submit(EvalPool)
    /\ UNCHANGED <<group_size, max_retries, iterative, initial_prompts, current_prompts,
                   attr, all_rule, idx, sample, status_log, final_out, hist>>
    /\ UNCHANGED call

\* that call returns
FirstEvalReturns ==
    /\ pc = "first_eval"
    /\ ev_pc = "returned"
    /\ FirstEvalResult(acc)
    /\ LeaveEval
    /\ UNCHANGED call

\* step 3: run calls evaluate_parallel on the candidates
CallVerify ==
    /\ pc = "verify"
    /\ pc' = "verify_eval"
    /\ Submit(Candidates)
    /\ UNCHANGED <<group_size, max_retries, iterative, initial_prompts, current_prompts,
                   attr, all_rule, idx, sample, status_log, final_out, hist>>
    /\ UNCHANGED call

\* that call returns
VerifyReturns ==
    /\ pc = "verify_eval"
    /\ ev_pc = "returned"
    /\ VerifyResult(acc, Verdicts(workers))
    /\ LeaveEval
    /\ UNCHANGED call

ThreadedNext ==
    \/ CallFirstEval
    \/ FirstEvalReturns
    \/ CallVerify
    \/ VerifyReturns
    \/ \E i \in 1..Len(workers) : WorkerStart(i)
    \/ \E i \in 1..Len(workers) : WorkerCallRaises(i)
    \/ \E i \in 1..Len(workers) : WorkerCallReturns(i)
    \/ \E i \in 1..Len(workers) : WorkerExhausted(i)
    \/ \E i \in 1..Len(workers) : Collect(i)
    \/ EvalReturn
    \/ Refine
    \/ RefineDebugWrite
    \/ RefineDebugWriteRaises
    \/ ExtractRule
    \/ Tier1Merge
    \/ Regenerate
    \/ RecursiveMerge
    \/ FinalFlush
    \/ Converge
    \/ FinalGen
    \/ OptimizerRaises

ThreadedSpec == ThreadedInit /\ [][ThreadedNext]_vars

(***************************************************************************)
(* CallSpec: one call of refine, extract_rule or combine_rules on any      *)
(* arguments                                                               *)
(***************************************************************************)
\* prompt lists passed as correct / wrong
PromptLists == SeqsUpTo(Range(SeedPrompts), MaxPrompts)

\* (original, improved) pairs passed to extract_rule
PairLists == SeqsUpTo({<<(<<"s1">>), (<<"c1">>)>>, <<(<<"s2">>), (<<"c2">>)>>}, MaxBlocks)

\* rules passed to combine_rules
RuleLists ==
    SeqsUpTo({[src |-> {0}, text |-> "rule"], [src |-> {1}, text |-> "rule"]},
             MaxGroupSize)

\* what the scorer can answer, symbol by symbol
ValSyms == {"4", ".", "-", ",", " ", "A", "b", "(A)", BOXED, KEYWORD}

ModelOutputs == SeqsUpTo(ValSyms, MaxTextLen)

\* item['answer'] of a sample
GroundTruths == {<<"4">>, <<" ", "4", ".">>, <<"A">>, <<"b", " ">>, <<>>}

\* item.get('type', 'general')
TaskTypes == {"math", "multiple_choice", "general"}

\* _worker(p) at the point where scorer.chat has just returned raw
WorkerCall(raw, answer_gt, task_type) ==
    [fn |-> "_worker", arg |-> raw, answer_gt |-> answer_gt, task_type |-> task_type,
     pc |-> "entry", chats |-> 0, result |-> "pending"]

\* a call at its entry; improved will hold what extract_tags returned to
\* refine
NewCall(fn, arg, correct) ==
    [fn |-> fn, arg |-> arg, correct |-> correct, pc |-> "entry", chats |-> 0,
     improved |-> <<>>, result |-> "pending"]

CallInit ==
    /\ \/ \E wrong \in PromptLists, correct \in PromptLists :
             call = NewCall("refine", wrong, correct)
       \/ \E pairs \in PairLists, correct \in PromptLists :
             call = NewCall("extract_rule", pairs, correct)
       \/ \E rules \in RuleLists : call = NewCall("combine_rules", rules, <<>>)
       \/ \E raw \in ModelOutputs, answer_gt \in GroundTruths, task_type \in TaskTypes :
             call = WorkerCall(raw, answer_gt, task_type)
    /\ RunIdle
    /\ ev_prompts = <<>>
    /\ ev_max_retries = 0
    /\ ev_concurrency = 1
    /\ workers = <<>>
    /\ collected = {}
    /\ acc = EmptyAcc
    /\ ev_pc = "idle"

\* optimizer.chat calls the function makes on these arguments
ChatsDue(c) ==
    CASE c.fn = "refine" -> refine_chats(c.arg)
      [] c.fn = "extract_rule" -> extract_rule_chats(c.arg)
      [] c.fn = "combine_rules" -> combine_rules_chats(c.arg)

\* the guard at the top of the function
CallEnter ==
    /\ call.pc = "entry"
    /\ call.fn \in {"refine", "extract_rule", "combine_rules"}
    /\ IF ChatsDue(call) = 0
       THEN call' = [call EXCEPT !.pc = "returned",
                                 !.result = CASE call.fn = "refine" -> refine(call.arg, <<>>)
                                              [] call.fn = "extract_rule" ->
                                                    extract_rule(call.arg, "", 0).text
                                              [] call.fn = "combine_rules" ->
                                                    combine_rules(call.arg, "").text]
       ELSE call' = [call EXCEPT !.pc = "chat"]
    /\ UNCHANGED <<evVars, runVars>>

\* the function goes on from an answer of the optimizer
AfterChat(c, next_pc, result) ==
    IF c.chats + 1 < ChatsDue(c)
    THEN [c EXCEPT !.chats = @ + 1]
    ELSE [c EXCEPT !.chats = @ + 1, !.pc = next_pc, !.result = result]

\* optimizer.chat returns
CallChatReturns ==
    /\ call.pc = "chat"
    /\ \/ /\ call.fn = "refine"
          /\ \E improved \in ImprovedLists :
                call' = [AfterChat(call, IF improved = <<>> THEN "debug" ELSE "returned",
                                   refine(call.arg, improved))
                            EXCEPT !.improved = improved]
       \/ /\ call.fn = "extract_rule"
          /\ \E text \in RuleTexts :
                call' = AfterChat(call, "returned", extract_rule(call.arg, text, 0).text)
       \/ /\ call.fn = "combine_rules"
          /\ \E text \in MergedTexts :
                call' = AfterChat(call, "returned", combine_rules(call.arg, text).text)
    /\ UNCHANGED <<evVars, runVars>>

\* optimizer.chat raises: none of the three functions catches it
CallChatRaises ==
    /\ call.pc = "chat"
    /\ call' = [call EXCEPT !.chats = @ + 1, !.pc = "raised"]
    /\ UNCHANGED <<evVars, runVars>>

\* refine, no rewrite found: the response goes to logs/optimizer_debug.txt
CallDebugWrite ==
    /\ call.pc = "debug"
    /\ call' = [call EXCEPT !.pc = "returned"]
    /\ UNCHANGED <<evVars, runVars>>

\* the open of logs/optimizer_debug.txt raises
CallDebugWriteRaises ==
    /\ call.pc = "debug"
    /\ call' = [call EXCEPT !.pc = "raised"]
    /\ UNCHANGED <<evVars, runVars>>

\* the rest of the worker's try block: validate_answer, and the return if
\* it did not raise
CallWorkerValidates ==
    /\ call.pc = "entry"
    /\ call.fn = "_worker"
    /\ LET w == AfterResponseOn([NewWorker(<<"s1">>) EXCEPT !.state = "running"],
                                call.arg, call.answer_gt, call.task_type)
       IN  call' = [call EXCEPT !.pc = IF w.state = "done" THEN "returned" ELSE "except",
                                !.result = w]
    /\ UNCHANGED <<evVars, runVars>>

CallNext ==
    \/ CallWorkerValidates
    \/ CallEnter
    \/ CallChatReturns
    \/ CallChatRaises
    \/ CallDebugWrite
    \/ CallDebugWriteRaises

CallSpec == CallInit /\ [][CallNext]_vars

(***************************************************************************)
(* Properties                                                              *)
(***************************************************************************)
Done == pc \in {"done", "aborted", "io_error"}

\* C1: merge-tree invariant. At every boundary between two samples (and
\* when the dataset is exhausted) attr holds fewer than group_size rules and
\* all_rule holds fewer than group_size rules.
C1_MergeTreeInvariant ==
    pc = "loop" => Len(attr) < group_size /\ Len(all_rule) < group_size

\* a boundary reached after a recursive merge drained all_rule
C1_Witness ==
    /\ pc = "loop"
    /\ group_size >= 2
    /\ \E k \in 1..Len(all_rule) : Cardinality(all_rule[k].src) >= 2 * group_size

\* every pair has a candidate that some verification worker judged Correct
Verified(pairs) ==
    \A k \in 1..Len(pairs) :
        \E i \in 1..Len(sample.candidate_pairs) :
            /\ i <= Len(sample.verdicts)
            /\ sample.candidate_pairs[i][2] = pairs[k][2]
            /\ sample.verdicts[i] = "True"

WorkersOf(p) == {i \in 1..Len(workers) : workers[i].p = p}

\* every scoring call made for p failed and its workers are over
NoResponse(p) ==
    /\ WorkersOf(p) # {}
    /\ \A i \in WorkersOf(p) : workers[i].state = "done" /\ workers[i].responses = 0

\* C3: a prompt whose scoring calls all failed is in neither correct nor
\* wrong and has no entry in detailed_res or failed_outputs (run hands
\* refine the wrong list, so such a prompt never reaches refine).
C3_DroppedNotClassified ==
    \A p \in Range(ev_prompts) :
        NoResponse(p) =>
            /\ p \notin Range(acc.correct)
            /\ p \notin Range(acc.wrong)
            /\ p \notin DOMAIN acc.detailed_res
            /\ p \notin DOMAIN acc.failed_outputs

\* evaluate_parallel returned; one prompt used up its retries on failures
\* while another was judged incorrect
C3_Witness ==
    /\ ev_pc = "returned"
    /\ \E p \in Range(ev_prompts) :
          NoResponse(p) /\ \E i \in WorkersOf(p) : workers[i].calls >= 2
    /\ acc.wrong # <<>>

Classified == Len(acc.correct) + Len(acc.wrong)

\* C4 as stated: |correct| + |incorrect| <= |prompts|, with equality iff no
\* scoring attempt of the evaluation failed.
C4_EqualityIffNoTransientError ==
    ev_pc = "returned" =>
        /\ Classified <= Len(ev_prompts)
        /\ (Classified = Len(ev_prompts)) <=>
               (\A i \in 1..Len(workers) : workers[i].sleeps = 0)

\* C4 amended: |correct| + |incorrect| <= |prompts|, with equality iff every
\* prompt's worker got a response within its retry budget.
C4_EqualityIffNoPromptDropped ==
    ev_pc = "returned" =>
        /\ Classified <= Len(ev_prompts)
        /\ (Classified = Len(ev_prompts)) <=>
               (\A i \in 1..Len(workers) : workers[i].responses = 1)

\* every prompt classified although a scoring attempt had failed
C4_Witness ==
    /\ ev_pc = "returned"
    /\ ev_prompts # <<>>
    /\ Classified = Len(ev_prompts)
    /\ \E i \in 1..Len(workers) : workers[i].sleeps >= 1

\* C5: run terminates, and when it returns the merge tree holds at most one
\* rule, which is the final rule.
C5_Converges ==
    /\ <>Done
    /\ [](pc = "done" =>
            /\ Len(all_rule) <= 1
            /\ final_out.rule = IF all_rule # <<>> THEN all_rule[1].text ELSE "")

\* merged rules that carry the rule extracted from sample i
Carriers(i) == {k \in 1..Len(all_rule) : i \in all_rule[k].src}

\* C6: no rule is lost. A rule appended to attr stays there until the one
\* combine_rules call that takes it (a tier-1 merge or the final flush);
\* from then on exactly one merged rule carries it, so a merged rule only
\* leaves all_rule as an input of the call whose result replaces it; and
\* when run returns every appended rule has been merged once and the one
\* merged rule left is the final rule.
C6_NoRuleLost ==
    /\ \A i \in hist.added :
          /\ hist.uses[i] <= 1
          /\ hist.uses[i] = 0 =>
                /\ \E k \in 1..Len(attr) : attr[k].src = {i}
                /\ Carriers(i) = {}
          /\ hist.uses[i] = 1 => Cardinality(Carriers(i)) = 1
    /\ \A k \in 1..Len(all_rule) : all_rule[k].src \subseteq hist.added
    /\ pc = "done" =>
          /\ \A i \in hist.added : hist.uses[i] = 1
          /\ Len(all_rule) <= 1
          /\ final_out.rule = IF all_rule # <<>> THEN all_rule[1].text ELSE ""

\* run returned after a tier-1 merge, a flush and a convergence merge
C6_Witness ==
    /\ pc = "done"
    /\ Cardinality(hist.added) >= 3
    /\ Len(all_rule) = 1
    /\ all_rule[1].src = hist.added

\* C7: with the iterative flag off, every sample is evaluated against the
\* seed prompts and no prompt-generation call is made inside the loop.
C7_RegenerationOnlyIfIterative ==
    ~iterative =>
        /\ current_prompts = initial_prompts
        /\ hist.gen_calls = 0
        /\ hist.last_eval.at >= 0 => hist.last_eval.pool = initial_prompts

\* C8: a regeneration that yields no usable prompt (the optimizer raising
\* included) leaves the pool as it was, and the pool is never replaced by
\* an empty list.
C8_PoolRetained ==
    [][/\ (pc = "regen" /\ hist'.last_gen.prompts = <<>>) =>
              current_prompts' = current_prompts
       /\ current_prompts' # current_prompts => current_prompts' # <<>>]_vars

\* the optimizer raised during a regeneration and an earlier generated pool
\* is still in force
C8_Witness ==
    /\ hist.last_gen.raised
    /\ hist.last_gen.prompts = <<>>
    /\ current_prompts # initial_prompts
    /\ current_prompts # <<>>

\* C9: the first evaluation of a sample uses the pool installed by the
\* latest replacement made at an earlier sample (the seed if there was
\* none); the sample at which a replacement happens was itself evaluated
\* against the pool in force before it.
C9_NextSamplesUseInstalledPool ==
    hist.last_eval.at >= 0 =>
        /\ hist.last_install.at <= hist.last_eval.at
        /\ hist.last_install.at < hist.last_eval.at =>
              hist.last_eval.pool = hist.last_install.pool
        /\ hist.last_install.at = hist.last_eval.at =>
              hist.last_eval.pool = hist.prev_pool

\* a sample after a replacement was evaluated against the generated pool
C9_Witness ==
    /\ hist.last_install.at >= 0
    /\ hist.last_eval.at > hist.last_install.at
    /\ hist.last_eval.pool # initial_prompts

\* C10: a worker that got a response is over, classified from that very
\* response, after exactly one more call than it had failures; the scorer
\* is not called again for it.
C10_NoRetryAfterResponse ==
    /\ [](\A i \in 1..Len(workers) :
            /\ workers[i].responses <= 1
            /\ workers[i].responses = 1 =>
                  /\ workers[i].state = "done"
                  /\ workers[i].calls = workers[i].sleeps + 1
                  /\ workers[i].is_correct =
                        IF Strip(workers[i].raw) = GroundTruth THEN "True" ELSE "False")
    /\ [][\A i \in 1..Len(workers) :
            workers[i].responses >= 1 => workers'[i].calls = workers[i].calls]_vars

\* a wrong answer on the first attempt, retries left, and the worker is over
C10_Witness ==
    /\ ev_pc = "returned"
    /\ \E i \in 1..Len(workers) :
          /\ workers[i].is_correct = "False"
          /\ workers[i].calls = 1
          /\ workers[i].attempt < ev_max_retries
    /\ \E i \in 1..Len(workers) : workers[i].is_correct = "True"

\* C11: bounded retry. A worker makes at most max_retries scoring calls and
\* at most max_retries sleeps; one that used its budget up without a
\* response ends with (p, None, None); and evaluate_parallel returns.
C11_BoundedRetry ==
    /\ [](\A i \in 1..Len(workers) :
            /\ workers[i].calls <= ev_max_retries
            /\ workers[i].sleeps <= ev_max_retries
            /\ (workers[i].state = "done" /\ workers[i].responses = 0) =>
                  /\ workers[i].is_correct = "None"
                  /\ workers[i].raw = NoRaw
                  /\ workers[i].sleeps = ev_max_retries)
    /\ <>(ev_pc = "returned")

\* evaluate_parallel returned although every scoring call of every prompt
\* failed, each worker having used its whole budget
C11_Witness ==
    /\ ev_pc = "returned"
    /\ Len(ev_prompts) >= 2
    /\ ev_max_retries >= 2
    /\ \A i \in 1..Len(workers) :
          /\ workers[i].calls = ev_max_retries
          /\ workers[i].sleeps = ev_max_retries
          /\ workers[i].is_correct = "None"
    /\ Classified = 0

\* C12: no failure of the optimizer during refine, extract_rule or
\* combine_rules for a sample ends run: it never stops with an exception
\* while samples are left.
C12_NoFatalError == ~(pc = "aborted" /\ idx < NumSamples)

\* C13: when the optimizer's answer to refine has no rewrite tag, refine
\* returns the empty list; run writes one row, Failed (Refine Step), leaves
\* attr, all_rule and the pool as they are and goes on to the next sample.
C13_NoTagsSkipsSample ==
    [][pc = "refine_notags" =>
          /\ pc' = "loop"
          /\ idx' = idx + 1
          /\ status_log'.rows = status_log.rows + 1
          /\ status_log'.last = [id |-> idx, status |-> "Failed (Refine Step)",
                                 initial_wrong |-> Len(sample.Pi),
                                 verified_success |-> 0]
          /\ UNCHANGED <<attr, all_rule, current_prompts>>]_vars

\* C14: extract_rule with an empty pairs list returns the empty rule, whatever
\* the correct list, without calling the optimizer; with pairs it calls the
\* optimizer exactly once.
C14_ExtractRuleCalls ==
    call.fn = "extract_rule" =>
        /\ call.chats <= 1
        /\ call.arg = <<>> =>
              /\ call.chats = 0
              /\ call.pc \in {"entry", "returned"}
              /\ call.pc = "returned" => call.result = ""
        /\ (call.arg # <<>> /\ call.pc \in {"returned", "raised"}) => call.chats = 1

\* extract_rule returned "" on no pairs although correct prompts were given
C14_Witness ==
    /\ call.fn = "extract_rule"
    /\ call.pc = "returned"
    /\ call.arg = <<>>
    /\ Len(call.correct) >= 2
    /\ call.chats = 0

\* C15: refine with an empty incorrect list returns the empty list without
\* calling the optimizer; otherwise one invocation makes exactly one call,
\* however many incorrect prompts there are.
C15_RefineCalls ==
    call.fn = "refine" =>
        /\ call.chats <= 1
        /\ call.arg = <<>> =>
              /\ call.chats = 0
              /\ call.pc \in {"entry", "returned"}
              /\ call.pc = "returned" => call.result = <<>>
        /\ (call.arg # <<>> /\ call.pc \in {"debug", "returned", "raised"}) =>
              call.chats = 1

\* refine returned two pairs for two incorrect prompts after one call
C15_Witness ==
    /\ call.fn = "refine"
    /\ call.pc = "returned"
    /\ Len(call.arg) >= 2
    /\ Len(call.result) >= 2
    /\ call.chats = 1

\* C16: merging a list of one rule keeps its content, so a run that
\* accumulates exactly one rule returns that rule's content as the final
\* rule. The rule appended to attr is not empty (`if rule:`); content
\* equivalent to it is at least not empty.
C16_SingleRuleKept ==
    (pc = "done" /\ Cardinality(hist.added) = 1) => final_out.rule # ""

\* rules extracted so far
Extracted == Cardinality(hist.added)

\* C17: while fewer than group_size rules have been extracted, no
\* combine_rules call and no regeneration has happened and the pool is the
\* seed; if the whole dataset yields R rules, 0 < R < group_size, the final
\* flush is the only combine_rules call, it takes exactly those R rules, and
\* its result is the final rule.
C17_PartialGroupFlushedOnce ==
    /\ Extracted < group_size =>
          /\ hist.combines.loop = 0
          /\ hist.last_gen.at = -1
          /\ hist.gen_calls = 0
          /\ current_prompts = initial_prompts
          /\ hist.combines.final <= 1
          /\ hist.combines.final = 0 => all_rule = <<>>
    /\ (pc = "done" /\ 0 < Extracted /\ Extracted < group_size) =>
          /\ hist.combines.final = 1
          /\ Len(all_rule) = 1
          /\ all_rule[1].src = hist.added
          /\ \A i \in hist.added : hist.uses[i] = 1
          /\ final_out.rule = all_rule[1].text

\* run returned after one failing sample gave the only rule of the dataset
C17_Witness ==
    /\ pc = "done"
    /\ Extracted = group_size - 1
    /\ Extracted > 0
    /\ hist.combines.final = 1
    /\ final_out.rule # ""

\* C18 as stated: every run that returns has flushed attr, holds at most
\* one merged rule and has made exactly one final generation call to the
\* optimizer, also when no rule was extracted.
C18_OneFinalOptimizerCall ==
    /\ pc # "done" => hist.final_gen.chats = 0
    /\ pc = "done" =>
          /\ \A i \in hist.added : hist.uses[i] = 1
          /\ Len(all_rule) <= 1
          /\ hist.final_gen.chats = 1

\* C18 amended: every run that returns has flushed attr, holds at most one
\* merged rule and has called _generate_prompts_from_rule once on the final
\* rule; that call asked the optimizer once if the final rule is not empty
\* and not at all, returning no prompt, if it is empty.
C18_OneFinalGeneration ==
    /\ pc # "done" => hist.final_gen = [calls |-> 0, chats |-> 0]
    /\ pc = "done" =>
          /\ \A i \in hist.added : hist.uses[i] = 1
          /\ Len(all_rule) <= 1
          /\ final_out.rule = IF all_rule # <<>> THEN all_rule[1].text ELSE ""
          /\ hist.final_gen.calls = 1
          /\ hist.final_gen.chats = IF final_out.rule # "" THEN 1 ELSE 0
          /\ final_out.rule = "" => final_out.prompts = <<>>

\* run returned over a dataset that gave no rule: no optimizer call, no
\* prompt
C18_Witness ==
    /\ pc = "done"
    /\ hist.added = {}
    /\ status_log.rows = NumSamples
    /\ hist.final_gen = [calls |-> 1, chats |-> 0]
    /\ final_out = [prompts |-> <<>>, rule |-> ""]

\* the row written for the current sample
Row(status, initial_wrong, verified_success) ==
    [id |-> idx, status |-> status, initial_wrong |-> initial_wrong,
     verified_success |-> verified_success]

\* C19: per-sample state machine. One row per sample, in dataset order:
\* the samples done so far have their rows, the current one gets its row
\* when its branch is decided. The row says which branch was taken:
\* Skipped (All Correct) when the first evaluation leaves no incorrect
\* prompt, Failed (Refine Step) when refine gives no pair, Failed
\* (Verification) when no candidate is verified, Success otherwise, with
\* verified_success <= initial_wrong. Each step is entered from the one
\* before it only.
C19_PerSampleStateMachine ==
    /\ [](/\ pc \in {"loop", "refine", "refine_notags", "verify", "io_error"} =>
                status_log.rows = idx
          /\ pc \in {"extract", "tier1", "regen", "recursive"} =>
                /\ status_log.rows = idx + 1
                /\ status_log.last.status = "Success"
                /\ status_log.last.verified_success = Len(sample.valid_pairs)
          /\ pc \in {"converge", "done"} => status_log.rows = NumSamples
          /\ status_log.rows \in {idx, idx + 1}
          /\ status_log.rows > 0 => status_log.last.id = status_log.rows - 1
          /\ status_log.last.verified_success <= status_log.last.initial_wrong)
    /\ [][/\ status_log' # status_log =>
                /\ status_log'.rows = status_log.rows + 1
                /\ \/ /\ pc = "loop" /\ pc' = "loop"
                      /\ status_log'.last = Row("Skipped (All Correct)", 0, 0)
                   \/ /\ pc = "refine_notags" /\ pc' = "loop"
                      /\ status_log'.last = Row("Failed (Refine Step)", Len(sample.Pi), 0)
                   \/ /\ pc = "verify" /\ pc' = "loop"
                      /\ status_log'.last = Row("Failed (Verification)", Len(sample.Pi), 0)
                   \/ /\ pc = "verify" /\ pc' = "extract"
                      /\ sample'.valid_pairs # <<>>
                      /\ status_log'.last =
                            Row("Success", Len(sample.Pi), Len(sample'.valid_pairs))
          /\ idx' # idx => idx' = idx + 1 /\ status_log'.rows = idx'
          /\ pc' = "refine" => pc = "loop" /\ sample'.Pi # <<>>
          /\ pc' = "refine_notags" => pc \in {"refine", "refine_notags"}
          /\ pc' = "verify" => pc = "refine" /\ sample'.candidate_pairs # <<>>
          /\ pc' = "extract" => pc = "verify"
          /\ pc' = "tier1" => pc = "extract"
          /\ pc' = "regen" => pc = "tier1"
          /\ pc' = "recursive" => pc \in {"extract", "regen", "recursive"}]_vars

\* run returned, every sample has its row, the last one a Success with one
\* of two incorrect prompts repaired
C19_Witness ==
    /\ pc = "done"
    /\ status_log.rows = NumSamples
    /\ status_log.last = [id |-> NumSamples - 1, status |-> "Success",
                          initial_wrong |-> 2, verified_success |-> 1]

\* the text has no token validate_answer can parse for this task type
ParseFails(raw, answer_gt, task_type) ==
    \/ task_type = "math" /\ (~to_float_maybe(raw).ok \/ ~to_float_maybe(Strip(answer_gt)).ok)
    \/ task_type = "multiple_choice" /\ ~extract_choice(raw).ok

\* C20: validate_answer never raises. Whatever the model output, the ground
\* truth and the task type, the worker returns from that very response,
\* classified Correct or Incorrect, without sleeping or calling again; and
\* when the parse fails the response is classified Incorrect.
C20_ValidateNeverRaises ==
    (call.fn = "_worker" /\ call.pc # "entry") =>
        /\ call.pc = "returned"
        /\ call.result.state = "done"
        /\ call.result.calls = 1
        /\ call.result.sleeps = 0
        /\ call.result.raw = call.arg
        /\ call.result.is_correct \in {"True", "False"}
        /\ ParseFails(call.arg, call.answer_gt, call.task_type) =>
              call.result.is_correct = "False"

\* a math sample answered without any number: Incorrect, no retry
C20_Witness ==
    /\ call.fn = "_worker"
    /\ call.pc = "returned"
    /\ call.task_type = "math"
    /\ call.arg = <<KEYWORD, " ", "A">>
    /\ call.answer_gt = <<"4">>
    /\ call.result.is_correct = "False"
    /\ call.result.sleeps = 0

\* C21: refine returns exactly min(len(wrong), len(improved)) pairs, the
\* i-th one being (i-th incorrect prompt as passed in, i-th extracted
\* rewrite); surplus rewrites and surplus incorrect prompts give no pair.
C21_RefinePairsByIndex ==
    (call.fn = "refine" /\ call.pc \in {"debug", "returned"}) =>
        /\ Len(call.result) = Min(Len(call.arg), Len(call.improved))
        /\ Len(call.result) <= Len(call.arg)
        /\ Len(call.result) <= Len(call.improved)
        /\ \A i \in 1..Len(call.result) :
              call.result[i] = <<call.arg[i], call.improved[i]>>

\* two incorrect prompts, one rewrite extracted: one pair, for the first
C21_Witness ==
    /\ call.fn = "refine"
    /\ call.pc = "returned"
    /\ call.arg = <<(<<"s1">>), (<<"s2">>)>>
    /\ Len(call.improved) = 1
    /\ call.result = <<(<<(<<"s1">>), call.improved[1]>>)>>

\* one incorrect prompt, two rewrites extracted: the second is left out
C21_WitnessSurplus ==
    /\ call.fn = "refine"
    /\ call.pc = "returned"
    /\ Len(call.arg) = 1
    /\ Len(call.improved) = 2
    /\ Len(call.result) = 1

\* C22: no race on driver state. evaluate_parallel returns only after all
\* of its workers have finished; outside a call of it no worker is running
\* or pending, in particular at every step that replaces current_prompts or
\* changes attr or all_rule; and an evaluation starts only when no worker
\* of an earlier one is left, so no two samples are evaluated at once.
C22_NoRaceOnDriverState ==
    /\ [](/\ ev_pc = "returned" =>
                /\ \A i \in 1..Len(workers) : workers[i].state = "done"
                /\ collected = 1..Len(workers)
          /\ pc \notin {"first_eval", "verify_eval"} =>
                /\ Unfinished(workers) = <<>>
                /\ ev_pc = "idle")
    /\ [][/\ (current_prompts' # current_prompts \/ attr' # attr \/ all_rule' # all_rule) =>
                /\ Unfinished(workers) = <<>>
                /\ ev_pc = "idle"
                /\ UNCHANGED evVars
          /\ (ev_pc # "running" /\ ev_pc' = "running") =>
                /\ Unfinished(workers) = <<>>
                /\ pc \in {"loop", "verify"}]_vars

\* the pool was replaced at the previous sample, and the workers of the
\* next sample's first evaluation are running against the new pool
C22_Witness ==
    /\ pc = "first_eval"
    /\ ev_pc = "running"
    /\ Running # {}
    /\ current_prompts # initial_prompts
    /\ ev_prompts = current_prompts
    /\ hist.last_install.at = idx - 1

\* the scorer's outcome is a function of the prompt: futures consumed for
\* the same prompt text returned the same verdict and the same output
PerPromptOutcome ==
    \A i, j \in collected :
        workers[i].p = workers[j].p =>
            Returned(workers[i]) = Returned(workers[j])

\* the prompts of the consumed futures that returned verdict v
Judged(v) == {workers[i].p : i \in {k \in collected : workers[k].is_correct = v}}

\* the output returned for prompt p
OutputOf(p) == workers[CHOOSE i \in collected : workers[i].p = p].raw

\* C23: completion-order independence. Whatever the interleaving of the
\* workers and the order in which their futures complete, the correct set
\* and the incorrect set are the prompts whose own worker returned True,
\* respectively False; and, the scorer's outcome being fixed per prompt,
\* detailed_res and failed_outputs are the maps these outcomes determine.
\* A prompt's classification depends on its own outcome only.
C23_CompletionOrderIndependent ==
    /\ Range(acc.correct) = Judged("True")
    /\ Range(acc.wrong) = Judged("False")
    /\ PerPromptOutcome =>
          /\ acc.detailed_res =
                [p \in Judged("True") \cup Judged("False") |-> p \in Judged("True")]
          /\ acc.failed_outputs = [p \in Judged("False") |-> OutputOf(p)]

\* the second prompt's future completed first, after the first prompt's
\* worker had a failed call; the first is incorrect, the second correct
C23_Witness ==
    /\ ev_pc = "returned"
    /\ ev_prompts = <<(<<"p1">>), (<<"p2">>)>>
    /\ workers[1].sleeps >= 1
    /\ acc.wrong = <<(<<"p1">>)>>
    /\ acc.correct = <<(<<"p2">>)>>
    /\ DOMAIN acc.failed_outputs = {<<"p1">>}

\* two futures completed in the reverse of the submission order
C23_WitnessReversed ==
    /\ ev_pc = "returned"
    /\ ev_prompts = <<(<<"p1">>), (<<"p2">>)>>
    /\ acc.correct = <<(<<"p2">>), (<<"p1">>)>>

\* C24: the pool changes only in a sample step in which a tier-1 merge
\* completed. The step that replaces current_prompts is the regeneration
\* that follows a tier-1 merge of the current, successful sample; the
\* Skipped, Failed (Refine Step) and Failed (Verification) branches, the
\* accumulation of a rule, the recursive merges and the final flush and
\* convergence leave it as it is.
C24_PoolChangesOnlyAfterTier1 ==
    /\ [](pc = "regen" =>
            /\ attr = <<>>
            /\ all_rule # <<>>
            /\ all_rule[Len(all_rule)] = sample.merged
            /\ idx \in sample.merged.src
            /\ status_log.last = Row("Success", Len(sample.Pi), Len(sample.valid_pairs)))
    /\ [][/\ current_prompts' # current_prompts =>
                /\ pc = "regen"
                /\ hist'.last_gen.at = idx
                /\ current_prompts' = hist'.last_gen.prompts
          /\ pc' = "regen" => pc = "tier1" /\ all_rule' = Append(all_rule, sample'.merged)
          /\ (pc \in {"loop", "refine", "refine_notags", "verify", "extract", "tier1",
                        "recursive", "converge"}) =>
                current_prompts' = current_prompts]_vars

\* the pool installed at an earlier sample is still in force when run
\* returns, after a later sample that failed verification and the final
\* steps
C24_Witness ==
    /\ pc = "done"
    /\ current_prompts # initial_prompts
    /\ hist.last_install.at < NumSamples - 1
    /\ current_prompts = hist.last_install.pool
    /\ status_log.last.status = "Failed (Verification)"
    /\ hist.combines.final >= 1

\* C25: every tier-1 merge made while iterating the dataset takes exactly
\* group_size pending rules, appends exactly one merged rule (distilled
\* from those rules) to all_rule and leaves attr empty; so once R rules
\* have been accumulated and the merge they make due is over, exactly
\* floor(R / group_size) tier-1 merges have fired. While that merge is
\* under way (or was cut short by an exception) it is one less.
C25_Tier1MergeCount ==
    /\ [](/\ pc \notin {"tier1", "aborted"} =>
                hist.tier1 = Extracted \div group_size
          /\ pc = "tier1" =>
                /\ Len(attr) = group_size
                /\ hist.tier1 = (Extracted \div group_size) - 1
          /\ pc = "aborted" =>
                hist.tier1 \in {(Extracted \div group_size) - 1, Extracted \div group_size}
          /\ pc \notin {"extract", "tier1", "aborted"} =>
                Len(attr) = Extracted % group_size)
    /\ [][hist'.tier1 # hist.tier1 =>
                /\ pc = "tier1"
                /\ hist'.tier1 = hist.tier1 + 1
                /\ Len(attr) = group_size
                /\ attr' = <<>>
                /\ Len(all_rule') = Len(all_rule) + 1
                /\ SubSeq(all_rule', 1, Len(all_rule)) = all_rule
                /\ all_rule'[Len(all_rule')].src =
                      UNION {attr[i].src : i \in 1..Len(attr)}]_vars

\* three rules accumulated in groups of two: one tier-1 merge has fired and
\* one rule is pending
C25_Witness ==
    /\ pc = "loop"
    /\ group_size = 2
    /\ Extracted = 3
    /\ hist.tier1 = 1
    /\ Len(attr) = 1

\* C26: the pool is replaced as a whole, never edited. The caller's seed
\* list keeps its content; while an evaluation runs, the list it reads and
\* the pool keep theirs, each worker holding the prompt submitted for it;
\* and a change of current_prompts binds it to the list the regeneration
\* returned, at a point where no evaluation is under way, after the
\* evaluations of one sample and before those of the next.
C26_PoolNeverMutatedInPlace ==
    /\ [](/\ initial_prompts = SeedPrompts
          /\ ev_pc = "running" =>
                /\ Len(workers) = Len(ev_prompts)
                /\ \A i \in 1..Len(workers) : workers[i].p = ev_prompts[i]
                /\ pc = "first_eval" => ev_prompts = current_prompts)
    /\ [][/\ initial_prompts' = initial_prompts
          /\ ev_pc \in {"running", "returned"} =>
                /\ ev_prompts' \in {ev_prompts, <<>>}
                /\ current_prompts' = current_prompts
          /\ current_prompts' # current_prompts =>
                /\ ev_pc = "idle" /\ ev_pc' = "idle"
                /\ pc = "regen"
                /\ pc' \in {"loop", "recursive"}
                /\ status_log.rows = idx + 1
                /\ current_prompts' = hist'.last_gen.prompts
                /\ hist'.prev_pool = current_prompts]_vars

\* the boundary right after a replacement: the pool is the generated list,
\* it shares no prompt with the seed, and the seed is as the caller gave it
C26_Witness ==
    /\ pc = "loop"
    /\ idx = hist.last_install.at + 1
    /\ idx > 0
    /\ current_prompts = hist.last_gen.prompts
    /\ Range(current_prompts) \cap Range(SeedPrompts) = {}
    /\ hist.prev_pool = SeedPrompts
    /\ initial_prompts = SeedPrompts
    /\ workers = <<>>

\* C27: a sample is recorded Skipped (All Correct) only if every prompt of
\* the pool in force was judged and classified Correct on it: when the row
\* is written, every worker of the first evaluation has returned True and
\* the correct list holds the whole pool.
C27_SkippedMeansAllCorrect ==
    [][(status_log'.rows # status_log.rows
        /\ status_log'.last.status = "Skipped (All Correct)") =>
            /\ pc = "first_eval"
            /\ Len(workers) = Len(current_prompts)
            /\ \A i \in 1..Len(workers) : workers[i].is_correct = "True"
            /\ Range(acc.correct) = Range(current_prompts)]_vars

\* C28: for every retry bound max_retries >= 0, each submitted prompt gets
\* at least one scoring call, and a prompt is dropped as no-result only
\* after a scoring call for it failed.
C28_AtLeastOneScoringCall ==
    \A i \in 1..Len(workers) :
        workers[i].state = "done" =>
            /\ workers[i].calls >= 1
            /\ workers[i].is_correct = "None" => workers[i].sleeps >= 1

\* C29: result consistency of evaluate_parallel, for every prompt list,
\* repeated texts included, and every scorer behaviour: no prompt is in
\* both correct and wrong; the keys of failed_outputs are the wrong
\* prompts; the keys of detailed_res are the prompts in correct or wrong,
\* each mapped to true iff it is in correct.
C29_ResultConsistency ==
    /\ Range(acc.correct) \cap Range(acc.wrong) = {}
    /\ DOMAIN acc.failed_outputs = Range(acc.wrong)
    /\ DOMAIN acc.detailed_res = Range(acc.correct) \cup Range(acc.wrong)
    /\ \A p \in DOMAIN acc.detailed_res :
          acc.detailed_res[p] <=> p \in Range(acc.correct)

\* the row of the current sample says Success
SuccessLogged == status_log.last = Row("Success", Len(sample.Pi), Len(sample.valid_pairs))

\* C30 as stated: every sample recorded Success adds exactly one rule to
\* attr in that step, before any merge of the step, so the samples that
\* gave a rule are the samples recorded Success. (A step ended by an
\* exception of the optimizer is left aside.)
C30_SuccessAddsOneRule ==
    /\ [](pc = "extract" => SuccessLogged)
    /\ [][(pc = "extract" /\ pc' \notin {"extract", "aborted"}) =>
                /\ Len(attr') = Len(attr) + 1
                /\ hist'.added = hist.added \cup {idx}]_vars

\* C30 amended: every sample recorded Success adds at most one rule to attr
\* in that step, before any merge of the step: exactly one, not empty and
\* extracted from this sample, or none (extract_rule returned an empty
\* rule). Rules are added in no other step, so the samples that gave a rule
\* are among the samples recorded Success.
C30_SuccessAddsAtMostOneRule ==
    /\ [](/\ pc = "extract" => SuccessLogged /\ idx \notin hist.added
          /\ Extracted <= status_log.rows
          /\ \A i \in hist.added : i <= status_log.last.id
          /\ \A k \in 1..Len(attr) : attr[k].text # "" /\ attr[k].src \subseteq hist.added)
    /\ [][/\ (pc = "extract" /\ pc' \notin {"extract", "aborted"}) =>
                \/ /\ Len(attr') = Len(attr) + 1
                   /\ SubSeq(attr', 1, Len(attr)) = attr
                   /\ attr'[Len(attr')].text # ""
                   /\ attr'[Len(attr')].src = {idx}
                   /\ hist'.added = hist.added \cup {idx}
                   /\ pc' = "tier1" <=> Len(attr') >= group_size
                \/ /\ attr' = attr
                   /\ hist'.added = hist.added
                   /\ pc' # "tier1"
          /\ (Len(attr') > Len(attr) \/ hist'.added # hist.added) => pc = "extract"]_vars

\* a sample was recorded Success and its extract_rule returned an empty
\* rule: nothing was added, and run is at the next sample
C30_Witness ==
    /\ pc = "loop"
    /\ status_log.last.status = "Success"
    /\ idx = status_log.last.id + 1
    /\ status_log.last.id \notin hist.added
    /\ hist.added # {}

====
